---- MODULE Spec2Model ----
(***************************************************************************)
(* A model of cicd-tool: the server-side deployment run and its step       *)
(* executor, the GitOps wrapper (branch creation, commit-and-push, history *)
(* alignment), the configuration validator and the client commands init,   *)
(* preparedev and deploy.                                                  *)
(*                                                                         *)
(* Each subsystem has its own specification (SpecDeploy, SpecAlign,        *)
(* SpecBranch, SpecPush, SpecConfig, SpecClientDeploy, SpecInit,           *)
(* SpecPrepareDev); the variables of the subsystems a specification does   *)
(* not exercise stay at their idle values.                                 *)
(***************************************************************************)
EXTENDS Integers, Sequences, FiniteSets, TLC

VARIABLES srv, git, calls, cfg, vres, cli

vars == <<srv, git, calls, cfg, vres, cli>>

(***************************************************************************)
(* Bounds of the model.                                                    *)
(***************************************************************************)
\* longest step list of an environment in a deployment run
MaxSteps == 3
\* most *.conf files below ./nginx
MaxConf == 2
\* files of a working tree
MaxFiles == 2
\* GitOps calls of one run
MaxCalls == 2
\* longest steps list of an environment in a validated document
MaxCfgSteps == 2

(***************************************************************************)
(* Idle values of the subsystems.                                          *)
(***************************************************************************)
NoSrv == [pc |-> "idle"]
NoGit == [repo |-> FALSE]
NoCfg == [kind |-> "idle"]
NoRes == [done |-> FALSE]
NoCli == [pc |-> "idle"]

(***************************************************************************)
(* Step executor: templates and str.format                                 *)
(***************************************************************************)
\* the keys of the context dict built by the server deploy command
ContextKeys == {"branch", "deploy_path", "project_name", "cwd", "env"}

\* the context of the modelled run
Context ==
  [branch |-> "main", deploy_path |-> "/srv/app", project_name |-> "demo",
   cwd |-> "/data/repos/demo", env |-> "prod"]

\* pieces of a template string, in order of appearance: literal text, a named
\* replacement field {name}, a positional field {} or {0}, a stray closing
\* brace
Lit(s) == [t |-> "lit", s |-> s]
Var(n) == [t |-> "var", s |-> n]
Pos == [t |-> "pos", s |-> "0"]
Bad == [t |-> "bad", s |-> "}"]

\* the step templates the runs draw from
Templates ==
  { <<Lit("npm install")>>,
    <<Lit("rm -rf "), Var("deploy_path"), Lit("/*")>>,
    <<Lit("echo "), Var("missing")>>,
    <<Lit("echo "), Pos, Lit(" "), Var("missing")>>,
    <<Lit("echo "), Var("missing"), Lit(" "), Bad>>,
    <<Lit("echo "), Bad, Lit(" "), Var("missing")>> }

\* str.format(**context) scans the template left to right and raises at the
\* first field it cannot resolve: KeyError for an unknown name, IndexError for
\* a positional field (no positional arguments are passed), ValueError for a
\* stray brace.  Result: [err, name, cmd].
RECURSIVE FormatFrom(_, _, _)
FormatFrom(tmpl, k, acc) ==
  IF k > Len(tmpl) THEN [err |-> "none", name |-> "", cmd |-> acc]
  ELSE LET tok == tmpl[k] IN
       CASE tok.t = "lit" -> FormatFrom(tmpl, k + 1, Append(acc, tok.s))
         [] tok.t = "var" ->
              IF tok.s \in ContextKeys
              THEN FormatFrom(tmpl, k + 1, Append(acc, Context[tok.s]))
              ELSE [err |-> "KeyError", name |-> tok.s, cmd |-> <<>>]
         [] tok.t = "pos" -> [err |-> "IndexError", name |-> tok.s, cmd |-> <<>>]
         [] OTHER -> [err |-> "ValueError", name |-> tok.s, cmd |-> <<>>]

Format(tmpl) == FormatFrom(tmpl, 1, <<>>)

\* the named fields of a template
Placeholders(tmpl) == {tmpl[k].s : k \in {j \in 1..Len(tmpl) : tmpl[j].t = "var"}}

(***************************************************************************)
(* The nginx action                                                        *)
(***************************************************************************)
Cmd(c, f) == [c |-> c, f |-> f]

\* cp and ln of the configuration files k..n, in glob order
RECURSIVE CopyAndLink(_, _)
CopyAndLink(k, n) ==
  IF k > n THEN <<>>
  ELSE <<Cmd("cp", k), Cmd("ln", k)>> \o CopyAndLink(k + 1, n)

\* the commands with the validation ahead of the copies
NginxPlanValidateFirst(nConf) ==
  <<Cmd("sudo -v", 0), Cmd("nginx -t", 0)>> \o CopyAndLink(1, nConf)
    \o <<Cmd("nginx -s reload", 0)>>

\* the external commands of the action, in the order it issues them
NginxPlan(nConf) ==
  <<Cmd("sudo -v", 0)>> \o CopyAndLink(1, nConf)
    \o <<Cmd("nginx -t", 0), Cmd("nginx -s reload", 0)>>

\* the action asking for sudo before it looks at ./nginx
NginxRunSudoFirst(hasDir, nConf, failAt) ==
  IF ~hasDir \/ nConf = 0
  THEN [ok |-> failAt # 1, cmds |-> <<Cmd("sudo -v", 0)>>]
  ELSE LET plan == NginxPlan(nConf) IN
       IF failAt \in 1..Len(plan)
       THEN [ok |-> FALSE, cmds |-> SubSeq(plan, 1, failAt)]
       ELSE [ok |-> TRUE, cmds |-> plan]

\* nginx.run(context): hasDir says whether ./nginx exists, nConf counts its
\* *.conf files, failAt is the position of the first command that exits
\* non-zero (0: none does).  Result: [ok, cmds], cmds the commands it started.
NginxRun(hasDir, nConf, failAt) ==
  IF ~hasDir \/ nConf = 0 THEN [ok |-> TRUE, cmds |-> <<>>]
  ELSE LET plan == NginxPlan(nConf) IN
       IF failAt \in 1..Len(plan)
       THEN [ok |-> FALSE, cmds |-> SubSeq(plan, 1, failAt)]
       ELSE [ok |-> TRUE, cmds |-> plan]

(***************************************************************************)
(* Executor.dispatch_step                                                  *)
(***************************************************************************)
ShellStep(tmpl) == [kind |-> "shell", tmpl |-> tmpl, name |-> ""]
ActionStep(n) == [kind |-> "action", tmpl |-> <<>>, name |-> n]
\* a mapping without the 'action' key
DictStep == [kind |-> "dict", tmpl |-> <<>>, name |-> ""]
\* neither a string nor a mapping
OtherStep == [kind |-> "other", tmpl |-> <<>>, name |-> ""]

StepValues ==
  {ShellStep(t) : t \in Templates}
    \cup {ActionStep("nginx"), ActionStep("apache"), DictStep, OtherStep}

\* what one dispatch can meet outside the step itself: the exit status of the
\* shell command, and the file system and command failures the action sees
DispatchInputs ==
  [exit : {0, 1}, hasDir : {TRUE}, nConf : {0}, failAt : {0}]
    \cup [exit : {0}, hasDir : BOOLEAN, nConf : 0..MaxConf,
          failAt : 0..(2 * MaxConf + 3)]

\* the shell branch of dispatch_step.  Result: [err, name, spawned, handler,
\* cmd, cmds]: the error raised ("none": returned), the variable it names,
\* whether a shell process / the action handler was started, the command
\* given to the shell, the commands of the handler.
DispatchShell(step, in) ==
  LET f == Format(step.tmpl) IN
  IF f.err = "KeyError"
  THEN [err |-> "UnknownVariable", name |-> f.name, spawned |-> FALSE,
        handler |-> FALSE, cmd |-> <<>>, cmds |-> <<>>]
  ELSE IF f.err # "none"
  THEN [err |-> f.err, name |-> f.name, spawned |-> FALSE,
        handler |-> FALSE, cmd |-> <<>>, cmds |-> <<>>]
  ELSE [err |-> IF in.exit = 0 THEN "none" ELSE "ShellStepFailed", name |-> "",
        spawned |-> TRUE, handler |-> FALSE, cmd |-> f.cmd, cmds |-> <<>>]

\* the action branch handing every action name to the nginx handler
DispatchActionAnyHandler(step, in) ==
  IF step.kind \in {"action", "dict"}
  THEN LET r == NginxRun(in.hasDir, in.nConf, in.failAt) IN
       [err |-> IF r.ok THEN "none" ELSE "ActionFailed", name |-> "",
        spawned |-> FALSE, handler |-> TRUE, cmd |-> <<>>, cmds |-> r.cmds]
  ELSE [err |-> "MalformedStep", name |-> "", spawned |-> FALSE,
        handler |-> FALSE, cmd |-> <<>>, cmds |-> <<>>]

\* the action branch and the fall-through of dispatch_step
DispatchAction(step, in) ==
  IF step.kind = "action"
  THEN IF step.name = "nginx"
       THEN LET r == NginxRun(in.hasDir, in.nConf, in.failAt) IN
            [err |-> IF r.ok THEN "none" ELSE "ActionFailed", name |-> "",
             spawned |-> FALSE, handler |-> TRUE, cmd |-> <<>>, cmds |-> r.cmds]
       ELSE [err |-> "UnsupportedAction", name |-> step.name, spawned |-> FALSE,
             handler |-> FALSE, cmd |-> <<>>, cmds |-> <<>>]
  ELSE [err |-> "MalformedStep", name |-> "", spawned |-> FALSE,
        handler |-> FALSE, cmd |-> <<>>, cmds |-> <<>>]

DispatchStep(step, in) ==
  IF step.kind = "shell" THEN DispatchShell(step, in) ELSE DispatchAction(step, in)

(***************************************************************************)
(* The server deploy command (cicd-runner deploy)                          *)
(***************************************************************************)
Ev(e, i) == [ev |-> e, step |-> i]
NoErr == [step |-> 0, kind |-> "none", name |-> ""]

\* the step lists an environment can configure
StepLists == UNION {[1..n -> StepValues] : n \in 0..MaxSteps}

\* a run that has not started: steps is the step list of the selected
\* environment in the cicd-config.yaml of the repository
\* seen is what the last run of the nginx action found below ./nginx, sites
\* the files it has put into /etc/nginx/sites-available and sites-enabled
NoView == [hasDir |-> FALSE, nConf |-> 0]
NoSites == [available |-> {}, enabled |-> {}]

SrvStart(steps) ==
  [pc |-> "prepare", steps |-> steps, idx |-> 1, log |-> <<>>, cmds |-> <<>>,
   err |-> NoErr, exit |-> -1, seen |-> NoView, sites |-> NoSites]

\* the run ends with typer.Exit(code=1)
SrvAbort(s, kind) ==
  [s EXCEPT !.pc = "done", !.exit = 1, !.err = [step |-> 0, kind |-> kind, name |-> ""]]

\* the events one dispatch adds to the log of the run
DispatchEvents(i, r) ==
  <<Ev("start", i)>>
    \o (IF r.spawned THEN <<Ev("spawn", i)>> ELSE <<>>)
    \o (IF r.handler THEN <<Ev("handler", i)>> ELSE <<>>)
    \o <<Ev(IF r.err = "none" THEN "ok" ELSE "fail", i)>>

\* the loop over the steps, after dispatch_step returned or raised r for step
\* s.idx: an exception leaves the loop and run(), and runner.deploy turns it
\* into exit status 1; after the last step run() returns
AfterDispatchKeepGoing(s, r) ==
  LET t == [s EXCEPT !.log = s.log \o DispatchEvents(s.idx, r), !.cmds = r.cmds] IN
  IF s.idx = Len(s.steps)
  THEN [t EXCEPT !.pc = "done", !.exit = 0]
  ELSE [t EXCEPT !.idx = s.idx + 1]

AfterDispatchSkip(s, r) ==
  LET t == [s EXCEPT !.log = s.log \o DispatchEvents(s.idx, r), !.cmds = r.cmds] IN
  IF r.err # "none"
  THEN [t EXCEPT !.pc = "done", !.exit = 1,
                 !.err = [step |-> s.idx, kind |-> r.err, name |-> r.name]]
  ELSE IF s.idx + 1 >= Len(s.steps)
  THEN [t EXCEPT !.pc = "done", !.exit = 0]
  ELSE [t EXCEPT !.idx = s.idx + 2]

AfterDispatch(s, r) ==
  LET t == [s EXCEPT !.log = s.log \o DispatchEvents(s.idx, r), !.cmds = r.cmds] IN
  IF r.err # "none"
  THEN [t EXCEPT !.pc = "done", !.exit = 1,
                 !.err = [step |-> s.idx, kind |-> r.err, name |-> r.name]]
  ELSE IF s.idx = Len(s.steps)
  THEN [t EXCEPT !.pc = "done", !.exit = 0]
  ELSE [t EXCEPT !.idx = s.idx + 1]

\* 1-2: the repository path is created when missing, and must be a repository
SrvPrepare ==
  /\ srv.pc = "prepare"
  /\ \E pathOk \in BOOLEAN, isRepo \in BOOLEAN :
       srv' = IF ~pathOk THEN SrvAbort(srv, "PathError")
              ELSE IF ~isRepo THEN SrvAbort(srv, "NotARepository")
              ELSE [srv EXCEPT !.pc = "sync"]
  /\ UNCHANGED <<git, calls, cfg, vres, cli>>

\* the git commands of the synchronisation started when command failAt is the
\* first to fail (0: none fails)
SyncEvents(failAt) ==
  LET all == <<Ev("fetch", 0), Ev("checkout", 0), Ev("pull", 0)>> IN
  IF failAt = 0 THEN all ELSE SubSeq(all, 1, failAt)

\* the synchronisation going on after a failed git command
SrvSyncIgnoreFailure ==
  /\ srv.pc = "sync"
  /\ \E failAt \in 0..3 :
       srv' = [srv EXCEPT !.log = srv.log \o SyncEvents(failAt), !.pc = "config"]
  /\ UNCHANGED <<git, calls, cfg, vres, cli>>

\* 3: fetch origin, checkout the branch, pull origin <branch>
SrvSync ==
  /\ srv.pc = "sync"
  /\ \E failAt \in 0..3 :
       LET t == [srv EXCEPT !.log = srv.log \o SyncEvents(failAt)] IN
       srv' = IF failAt # 0 THEN SrvAbort(t, "SyncFailed")
              ELSE [t EXCEPT !.pc = "config"]
  /\ UNCHANGED <<git, calls, cfg, vres, cli>>

\* an empty step list treated as an error
SrvLoadConfigEmptyFails ==
  /\ srv.pc = "config"
  /\ \E file \in {"ok", "missing", "unreadable"}, envDefined \in BOOLEAN :
       srv' = IF file = "missing" THEN SrvAbort(srv, "ConfigMissing")
              ELSE IF file = "unreadable" THEN SrvAbort(srv, "ConfigUnreadable")
              ELSE IF ~envDefined THEN SrvAbort(srv, "UnknownEnvironment")
              ELSE IF Len(srv.steps) = 0 THEN SrvAbort(srv, "NoSteps")
              ELSE [srv EXCEPT !.pc = "steps"]
  /\ UNCHANGED <<git, calls, cfg, vres, cli>>

\* 4-5: load cicd-config.yaml, select the environment; no steps: return
SrvLoadConfig ==
  /\ srv.pc = "config"
  /\ \E file \in {"ok", "missing", "unreadable"}, envDefined \in BOOLEAN :
       srv' = IF file = "missing" THEN SrvAbort(srv, "ConfigMissing")
              ELSE IF file = "unreadable" THEN SrvAbort(srv, "ConfigUnreadable")
              ELSE IF ~envDefined THEN SrvAbort(srv, "UnknownEnvironment")
              ELSE IF Len(srv.steps) = 0 THEN [srv EXCEPT !.pc = "done", !.exit = 0]
              ELSE [srv EXCEPT !.pc = "steps"]
  /\ UNCHANGED <<git, calls, cfg, vres, cli>>

\* the commands of a dispatch that exited with status 0: all of them, or all
\* but the last when the action failed
Completed(r) ==
  IF r.err = "ActionFailed" THEN SubSeq(r.cmds, 1, Len(r.cmds) - 1) ELSE r.cmds

\* sudo cp -f and sudo ln -sf write below /etc/nginx; nothing removes a file
SitesAfter(sites, done) ==
  [available |-> sites.available \cup {done[k].f : k \in {j \in 1..Len(done) : done[j].c = "cp"}},
   enabled |-> sites.enabled \cup {done[k].f : k \in {j \in 1..Len(done) : done[j].c = "ln"}}]

\* 6: one iteration of the loop over the steps
SrvDispatch ==
  /\ srv.pc = "steps"
  /\ \E in \in DispatchInputs :
       LET r == DispatchStep(srv.steps[srv.idx], in) IN
       srv' = [AfterDispatch(srv, r) EXCEPT
                 !.seen = IF r.handler THEN [hasDir |-> in.hasDir, nConf |-> in.nConf]
                          ELSE srv.seen,
                 !.sites = SitesAfter(srv.sites, Completed(r))]
  /\ UNCHANGED <<git, calls, cfg, vres, cli>>

InitDeploy ==
  /\ srv \in {SrvStart(steps) : steps \in StepLists}
  /\ git = NoGit
  /\ calls = <<>>
  /\ cfg = NoCfg
  /\ vres = NoRes
  /\ cli = NoCli

NextDeploy == SrvPrepare \/ SrvSync \/ SrvLoadConfig \/ SrvDispatch

SpecDeploy == InitDeploy /\ [][NextDeploy]_vars

(***************************************************************************)
(* The repository: what the git commands of GitOps read and write          *)
(***************************************************************************)
\* files of the working tree; content 0 means the file is absent
Files == 1..MaxFiles
Contents == {0, 1, 2}
Trees == [Files -> Contents]
EmptyTree == [f \in Files |-> 0]

\* branch names, in the order git lists them
NameOrder == <<"feat/login", "main", "maintenance", "master">>
Names == {NameOrder[k] : k \in 1..Len(NameOrder)}
NoRefs == [n \in Names |-> 0]

\* the commits of the remote's history: commit 2 is a child of commit 1
RemoteHistory ==
  << [tree |-> [f \in Files |-> IF f = 1 THEN 1 ELSE 0], parent |-> 0],
     [tree |-> [f \in Files |-> IF f = 1 THEN 2 ELSE 1], parent |-> 1] >>

\* a repository: head is the branch HEAD points to, heads the local branch
\* refs (0: no such ref, so a head without ref is an unborn branch), tracking
\* the refs/remotes/origin refs, remote the branches of the origin server,
\* upstream the local branches with a configured upstream
Repo(head, heads, wt, idx, remote, tracking, upstream) ==
  [repo |-> TRUE, hasRemote |-> TRUE, head |-> head, heads |-> heads,
   commits |-> RemoteHistory, wt |-> wt, idx |-> idx, remote |-> remote,
   tracking |-> tracking, upstream |-> upstream]

TreeOf(g, c) == IF c = 0 THEN EmptyTree ELSE g.commits[c].tree
HeadCommit(g) == g.heads[g.head]
HeadTree(g) == TreeOf(g, HeadCommit(g))

\* git rev-parse HEAD fails on an unborn branch: get_head_hash returns ""
HasHead(g) == HeadCommit(g) # 0

\* git status --porcelain prints a line for every file whose index entry
\* differs from HEAD or whose working copy differs from the index
StatusLines(g) == {f \in Files : g.idx[f] # HeadTree(g)[f] \/ g.wt[f] # g.idx[f]}
IsDirty(g) == StatusLines(g) # {}

\* git branch --list
LocalBranches(g) == {n \in Names : g.heads[n] # 0}

\* c is a or an ancestor of a
RECURSIVE IsAncestor(_, _, _)
IsAncestor(g, c, a) ==
  IF a = 0 THEN FALSE
  ELSE IF a = c THEN TRUE
  ELSE IsAncestor(g, c, g.commits[a].parent)

\* git add .
GitAddAll(g) == [g EXCEPT !.idx = g.wt]

\* git commit refuses when the index equals the tree of HEAD
CanCommit(g) == g.idx # HeadTree(g)

\* git commit -m: a new commit of the index on top of HEAD
GitCommit(g) ==
  [g EXCEPT !.commits = Append(g.commits, [tree |-> g.idx, parent |-> HeadCommit(g)]),
            !.heads[g.head] = Len(g.commits) + 1]

\* git fetch origin: the remote's branches become remote-tracking refs (refs
\* of branches the remote no longer has are kept: no --prune)
GitFetch(g) ==
  [g EXCEPT !.tracking =
     [n \in Names |-> IF g.remote[n] # 0 THEN g.remote[n] ELSE g.tracking[n]]]

\* git update-ref -d HEAD: deletes the ref of the current branch; index and
\* working tree stay
GitUpdateRefDeleteHead(g) == [g EXCEPT !.heads[g.head] = 0]

\* git reset --soft <commit>: moves the current branch only
GitResetSoft(g, c) == [g EXCEPT !.heads[g.head] = c]

\* git reset --mixed <commit>: moves the current branch and resets the index;
\* the working tree stays
GitResetMixed(g, c) == [g EXCEPT !.heads[g.head] = c, !.idx = TreeOf(g, c)]

\* the characters of a name
Chars(n) ==
  CASE n = "main" -> <<"m", "a", "i", "n">>
    [] n = "master" -> <<"m", "a", "s", "t", "e", "r">>
    [] n = "maintenance" -> <<"m", "a", "i", "n", "t", "e", "n", "a", "n", "c", "e">>
    [] n = "feat/login" -> <<"f", "e", "a", "t", "/", "l", "o", "g", "i", "n">>
    [] n = "origin/" -> <<"o", "r", "i", "g", "i", "n", "/">>

\* git branch -r: one line "  origin/<name>" per remote-tracking ref
RECURSIVE BranchLinesFrom(_, _)
BranchLinesFrom(g, k) ==
  IF k > Len(NameOrder) THEN <<>>
  ELSE (IF g.tracking[NameOrder[k]] # 0
        THEN <<" ", " ">> \o Chars("origin/") \o Chars(NameOrder[k]) \o <<"\n">>
        ELSE <<>>) \o BranchLinesFrom(g, k + 1)

GitBranchRemote(g) == BranchLinesFrom(g, 1)

\* Python's  pat in text  on strings
Contains(text, pat) ==
  \E i \in 1..(Len(text) - Len(pat) + 1) : SubSeq(text, i, i + Len(pat) - 1) = pat

(***************************************************************************)
(* GitOps.align_with_remote                                                *)
(***************************************************************************)
\* the git commands of the routine that can exit non-zero for a reason
\* outside the repository (no identity, network, permissions, locks)
AlignCommands == {"commit", "fetch", "branch", "reset", "update-ref"}

\* the failures of one call: none, one command, or the fetch together with
\* the update-ref that undoes the temporary commit
AlignFailures == {{}} \cup {{c} : c \in AlignCommands} \cup {{"fetch", "update-ref"}}

\* step 3: origin/main, else origin/master, else no target
SelectTarget(listing) ==
  IF Contains(listing, Chars("origin/") \o Chars("main")) THEN "main"
  ELSE IF Contains(listing, Chars("origin/") \o Chars("master")) THEN "master"
  ELSE ""

Raised(g, kind) == [git |-> g, ok |-> FALSE, outcome |-> kind, target |-> ""]

\* step 4, A: reset --mixed origin/<target>; git rejects a revision that names
\* no ref
AlignReset(g, target, fail) ==
  IF "reset" \in fail \/ g.tracking[target] = 0
  THEN Raised(g, "GitOperationFailed")
  ELSE [git |-> GitResetMixed(g, g.tracking[target]), ok |-> TRUE,
        outcome |-> "AlignedToRemote", target |-> target]

\* step 4, B without the undo
AlignKeepNoUndo(g, fail) ==
  [git |-> g, ok |-> TRUE, outcome |-> "RemoteEmptyKept", target |-> ""]

\* step 4, B: the remote is empty, the temporary commit is undone
AlignKeep(g, fail) ==
  IF "update-ref" \in fail THEN Raised(g, "GitOperationFailed")
  ELSE [git |-> GitUpdateRefDeleteHead(g), ok |-> TRUE,
        outcome |-> "RemoteEmptyKept", target |-> ""]

\* step 2, fetch failed, without the undo
AlignFetchFailedNoUndo(g, fail) == Raised(g, "ConnectivityFailure")

\* step 2, fetch failed: the temporary commit is undone, then the error
AlignFetchFailed(g, fail) ==
  IF "update-ref" \in fail THEN Raised(g, "GitOperationFailed")
  ELSE Raised(GitUpdateRefDeleteHead(g), "ConnectivityFailure")

\* steps 2-4, after the temporary commit
AlignAfterCommit(g, fail) ==
  IF "fetch" \in fail THEN AlignFetchFailed(g, fail)
  ELSE LET g3 == GitFetch(g) IN
       IF "branch" \in fail THEN Raised(g3, "GitOperationFailed")
       ELSE LET target == SelectTarget(GitBranchRemote(g3)) IN
            IF target # "" THEN AlignReset(g3, target, fail)
            ELSE AlignKeep(g3, fail)

\* align_with_remote on repository g, when the commands in fail exit non-zero.
\* Result: [git, ok, outcome, target].
AlignWithRemote(g, fail) ==
  LET g1 == GitAddAll(g) IN
  IF "commit" \in fail \/ ~CanCommit(g1) THEN Raised(g1, "GitOperationFailed")
  ELSE AlignAfterCommit(GitCommit(g1), fail)

\* one call of a GitOps method, as the history keeps it
Call(op, args, fail, pre, r) ==
  [op |-> op, args |-> args, fail |-> fail, pre |-> pre, post |-> r.git,
   ok |-> r.ok, outcome |-> r.outcome, target |-> r.target]

\* cicd init, step 3: with no commit on HEAD and a dirty working tree, the
\* user accepts the synchronisation and align_with_remote runs
InitAlign ==
  /\ git.repo /\ git.hasRemote
  /\ ~HasHead(git) /\ IsDirty(git)
  /\ Len(calls) < MaxCalls
  /\ \E fail \in AlignFailures :
       LET r == AlignWithRemote(git, fail) IN
       /\ git' = r.git
       /\ calls' = Append(calls, Call("align", <<>>, fail, git, r))
  /\ UNCHANGED <<srv, cfg, vres, cli>>

\* the refs a remote of the model can have
RemoteRefs ==
  {r \in [Names -> 0..Len(RemoteHistory)] :
     r["feat/login"] = 0 /\ r["master"] \in {0, 2} /\ r["maintenance"] \in {0, 1}}

\* a repository without commits, as git init and git remote add leave it
InitAlignSpec ==
  /\ srv = NoSrv
  /\ cfg = NoCfg
  /\ vres = NoRes
  /\ cli = NoCli
  /\ calls = <<>>
  /\ \E wt \in Trees, idx \in Trees, remote \in RemoteRefs :
       git = Repo("master", NoRefs, wt, idx, remote, NoRefs, {})

NextAlign == InitAlign

SpecAlign == InitAlignSpec /\ [][NextAlign]_vars

(***************************************************************************)
(* GitOps.create_and_checkout_branch                                       *)
(***************************************************************************)
GitOk(g) == [git |-> g, ok |-> TRUE, outcome |-> "ok", target |-> ""]

\* switching the working tree from tree a to tree b: git refuses when a file
\* that differs between the two has local changes it would overwrite
CanSwitch(g, a, b) ==
  \A f \in Files :
    a[f] # b[f] => \/ (g.idx[f] = a[f] /\ g.wt[f] = a[f])
                   \/ g.idx[f] = b[f]

\* index and working tree after the switch: changed files are written, local
\* changes are carried over
Switched(g, a, b) ==
  [g EXCEPT !.idx = [f \in Files |-> IF a[f] # b[f] THEN b[f] ELSE g.idx[f]],
            !.wt = [f \in Files |-> IF a[f] # b[f] /\ g.idx[f] = a[f] THEN b[f] ELSE g.wt[f]]]

\* git checkout <branch>: a local branch; else a branch of origin, of which a
\* local branch with that upstream is created; else an error
GitCheckout(g, b) ==
  LET c == IF g.heads[b] # 0 THEN g.heads[b] ELSE g.tracking[b] IN
  IF c = 0 \/ ~CanSwitch(g, HeadTree(g), TreeOf(g, c))
  THEN Raised(g, "GitOperationFailed")
  ELSE GitOk([Switched(g, HeadTree(g), TreeOf(g, c)) EXCEPT
                !.head = b, !.heads[b] = c,
                !.upstream = IF g.heads[b] = 0 THEN g.upstream \cup {b} ELSE g.upstream])

\* git checkout -b <branch>: refuses an existing branch; on an unborn branch
\* only HEAD moves
GitCheckoutNew(g, b) ==
  IF g.heads[b] # 0 THEN Raised(g, "GitOperationFailed")
  ELSE IF ~HasHead(g) THEN GitOk([g EXCEPT !.head = b])
  ELSE GitOk([g EXCEPT !.head = b, !.heads[b] = HeadCommit(g)])

\* the else branch alone: the branch is always created
CreateAndCheckoutBranchNoCheck(g, name, base) ==
  IF base # ""
  THEN LET r == GitCheckout(g, base) IN
       IF r.ok THEN GitCheckoutNew(r.git, name) ELSE r
  ELSE GitCheckoutNew(g, name)

\* create_and_checkout_branch(name, base) in a repository; base "" is None
CreateAndCheckoutBranch(g, name, base) ==
  IF name \in LocalBranches(g) THEN GitCheckout(g, name)
  ELSE IF base # ""
  THEN LET r == GitCheckout(g, base) IN
       IF r.ok THEN GitCheckoutNew(r.git, name) ELSE r
  ELSE GitCheckoutNew(g, name)

\* a caller creates or switches to a branch
BranchCall ==
  /\ git.repo
  /\ Len(calls) < MaxCalls
  /\ \E name \in {"feat/login", "main"}, base \in {"", "main", "master"} :
       LET r == CreateAndCheckoutBranch(git, name, base) IN
       /\ git' = r.git
       /\ calls' = Append(calls, Call("branch", <<name, base>>, {}, git, r))
  /\ UNCHANGED <<srv, cfg, vres, cli>>

\* local branch refs and fetched refs of the repositories of SpecBranch
BranchRefs ==
  {h \in [Names -> 0..Len(RemoteHistory)] : h["master"] = 0 /\ h["maintenance"] = 0}
FetchedRefs ==
  {t \in [Names -> {0, Len(RemoteHistory)}] : t["feat/login"] = 0 /\ t["maintenance"] = 0}

\* a repository on main or feat/login (unborn when the branch has no ref),
\* with a clean or changed working tree
InitBranchSpec ==
  /\ srv = NoSrv
  /\ cfg = NoCfg
  /\ vres = NoRes
  /\ cli = NoCli
  /\ calls = <<>>
  /\ \E head \in {"main", "feat/login"}, heads \in BranchRefs, t \in FetchedRefs,
        wt \in Trees, staged \in BOOLEAN :
       LET tree == IF heads[head] = 0 THEN EmptyTree
                   ELSE RemoteHistory[heads[head]].tree IN
       git = Repo(head, heads, wt, IF staged THEN wt ELSE tree, t, t, {})

NextBranch == BranchCall

SpecBranch == InitBranchSpec /\ [][NextBranch]_vars

(***************************************************************************)
(* GitOps.push (commitAndPush)                                             *)
(***************************************************************************)
\* the remote accepts commit c for branch b: a new branch or a fast-forward
Accepts(g, b, c) == g.remote[b] = 0 \/ IsAncestor(g, g.remote[b], c)

Pushed(g, b) ==
  [g EXCEPT !.remote[b] = HeadCommit(g), !.tracking[b] = HeadCommit(g)]

\* git push: [git, res].  Without an upstream of the current branch git stops
\* before it contacts the remote ("... has no upstream branch"); net says
\* whether the remote can be reached.
GitPush(g, net) ==
  IF g.head \notin g.upstream THEN [git |-> g, res |-> "NoUpstream"]
  ELSE IF ~net THEN [git |-> g, res |-> "Network"]
  ELSE IF ~Accepts(g, g.head, HeadCommit(g)) THEN [git |-> g, res |-> "Rejected"]
  ELSE [git |-> Pushed(g, g.head), res |-> "ok"]

\* git push --set-upstream origin <branch>
GitPushSetUpstream(g, b, net) ==
  IF ~net THEN [git |-> g, res |-> "Network"]
  ELSE IF ~Accepts(g, b, g.heads[b]) THEN [git |-> g, res |-> "Rejected"]
  ELSE [git |-> [Pushed(g, b) EXCEPT !.upstream = g.upstream \cup {b}], res |-> "ok"]

\* "no upstream branch" in str(e)
IsNoUpstreamError(res) == res = "NoUpstream"

Run(c, b, res) == [cmd |-> c, branch |-> b, res |-> res]

PushResult(g, ok, trace) ==
  [git |-> g, ok |-> ok, outcome |-> IF ok THEN "ok" ELSE "GitOperationFailed",
   target |-> "", trace |-> trace]

\* step 3 retrying after every failed push
PushStepAlwaysRetry(g, in, trace) ==
  LET b == g.head
      p == GitPush(g, in.net1)
      t1 == trace \o <<Run("branch --show-current", b, "ok"), Run("push", "", p.res)>> IN
  IF p.res = "ok" THEN PushResult(p.git, TRUE, t1)
  ELSE LET q == GitPushSetUpstream(p.git, b, in.net2) IN
       PushResult(q.git, q.res = "ok",
                  Append(t1, Run("push --set-upstream origin", b, q.res)))

\* step 3: the current branch is read, then git push, and after a
\* no-upstream failure git push --set-upstream origin <branch>
PushStep(g, in, trace) ==
  LET b == g.head
      p == GitPush(g, in.net1)
      t1 == trace \o <<Run("branch --show-current", b, "ok"), Run("push", "", p.res)>> IN
  IF p.res = "ok" THEN PushResult(p.git, TRUE, t1)
  ELSE IF IsNoUpstreamError(p.res)
  THEN LET q == GitPushSetUpstream(p.git, b, in.net2) IN
       PushResult(q.git, q.res = "ok",
                  Append(t1, Run("push --set-upstream origin", b, q.res)))
  ELSE PushResult(p.git, FALSE, t1)

\* push(commit_msg) in a repository: in.commit says whether git commit can
\* work at all, in.net1 and in.net2 whether the remote can be reached by the
\* first and the second push
Push(g, in) ==
  LET g1 == GitAddAll(g) IN
  IF ~in.commit \/ ~CanCommit(g1)
  THEN PushResult(g1, FALSE, <<Run("add", "", "ok"), Run("commit", "", "failed")>>)
  ELSE PushStep(GitCommit(g1), in, <<Run("add", "", "ok"), Run("commit", "", "ok")>>)

\* the inputs that matter in repository g: the first push reaches the remote
\* only with an upstream, and only without one is there a second push
PushInputs(g) ==
  {[commit |-> FALSE, net1 |-> TRUE, net2 |-> TRUE]}
    \cup {in \in [commit : {TRUE}, net1 : BOOLEAN, net2 : BOOLEAN] :
            IF g.head \in g.upstream THEN in.net2 ELSE in.net1}

\* a caller commits and pushes
PushCall ==
  /\ git.repo
  /\ Len(calls) < MaxCalls
  /\ \E in \in PushInputs(git) :
       LET r == Push(git, in) IN
       /\ git' = r.git
       /\ calls' = Append(calls,
            [op |-> "push", args |-> <<>>, fail |-> in, pre |-> git, post |-> r.git,
             ok |-> r.ok, outcome |-> r.outcome, target |-> "", trace |-> r.trace])
  /\ UNCHANGED <<srv, cfg, vres, cli>>

\* the developer edits a file of a clean working tree
EditFile ==
  /\ git.repo
  /\ ~IsDirty(git) /\ Len(calls) < MaxCalls
  /\ \E f \in Files, v \in Contents :
       /\ v # git.wt[f]
       /\ git' = [git EXCEPT !.wt[f] = v]
  /\ UNCHANGED <<srv, calls, cfg, vres, cli>>

\* a repository on feat/login: the branch may be unborn, may have an upstream
\* and may exist on the remote at either commit; nothing is staged
InitPushSpec ==
  /\ srv = NoSrv
  /\ cfg = NoCfg
  /\ vres = NoRes
  /\ cli = NoCli
  /\ calls = <<>>
  /\ \E c \in 0..Len(RemoteHistory), rc \in 0..Len(RemoteHistory), up \in BOOLEAN,
        wt \in Trees :
       LET head == "feat/login"
           tree == IF c = 0 THEN EmptyTree ELSE RemoteHistory[c].tree
           refs == [NoRefs EXCEPT ![head] = rc] IN
       git = Repo(head, [NoRefs EXCEPT ![head] = c], wt, tree, refs, refs,
                  IF up THEN {head} ELSE {})

NextPush == PushCall \/ EditFile

SpecPush == InitPushSpec /\ [][NextPush]_vars

(***************************************************************************)
(* ConfigOps.validate_config                                               *)
(***************************************************************************)
\* A value of the document: p is its shape ("absent": the key is missing,
\* "null", "scalar": present but neither mapping nor list, "map", "list").
Absent == [p |-> "absent"]
Null == [p |-> "null"]
Scalar == [p |-> "scalar"]

RequiredTopKeys == <<"project_name", "server", "environments">>
RequiredServerFields == <<"host", "user", "repo_path">>
EnvNames == <<"prod", "dev">>

\* an item of a steps list: a string, a mapping with the key action, a
\* mapping without it, anything else
CfgStepKinds == {"str", "action", "dict", "other"}

StepsValues(n) ==
  {Absent, Null, Scalar}
    \cup {[p |-> "list", items |-> l] :
            l \in UNION {[1..m -> CfgStepKinds] : m \in 0..n}}

\* the values of an environment whose steps list has at most n items
EnvValues(n) ==
  {Scalar} \cup {[p |-> "map", deploy_path |-> d, steps |-> st] :
                   d \in BOOLEAN, st \in StepsValues(n)}

ServerValues ==
  {Absent, Scalar} \cup {[p |-> "map", fields |-> fs] : fs \in SUBSET {"host", "user", "repo_path"}}

\* the environments mapping, as the sequence of its items in document order;
\* in a document with two environments the second has at most one step
EnvItems ==
  {<<>>}
    \cup {<<[name |-> EnvNames[k], conf |-> c]>> :
            k \in 1..Len(EnvNames), c \in EnvValues(MaxCfgSteps)}
    \cup {<<[name |-> EnvNames[1], conf |-> c], [name |-> EnvNames[2], conf |-> d]>> :
            c \in EnvValues(MaxCfgSteps), d \in EnvValues(1)}

EnvironmentsValues == {Absent, Scalar} \cup {[p |-> "map", items |-> it] : it \in EnvItems}

\* the files validate_config can find: none, one yaml cannot parse, an empty
\* one (safe_load returns None), or a mapping
Documents ==
  {[file |-> f, project |-> TRUE, server |-> Absent, envs |-> Absent] :
     f \in {"missing", "badyaml", "empty"}}
    \cup {[file |-> "ok", project |-> pr, server |-> sv, envs |-> ev] :
            pr \in BOOLEAN, sv \in ServerValues, ev \in EnvironmentsValues}

Err(code, env, pos, field) == [code |-> code, env |-> env, pos |-> pos, field |-> field]

\* key in config, for the required top-level keys
HasTopKey(doc, key) ==
  CASE key = "project_name" -> doc.project
    [] key = "server" -> doc.server.p # "absent"
    [] key = "environments" -> doc.envs.p # "absent"

\* 1: one error per missing top-level key
RECURSIVE TopErrors(_, _)
TopErrors(doc, k) ==
  IF k > Len(RequiredTopKeys) THEN <<>>
  ELSE (IF HasTopKey(doc, RequiredTopKeys[k]) THEN <<>>
        ELSE <<Err("MissingTopKey", "", 0, RequiredTopKeys[k])>>) \o TopErrors(doc, k + 1)

\* 2: one error per missing required field of server
RECURSIVE ServerFieldErrors(_, _)
ServerFieldErrors(server, k) ==
  IF k > Len(RequiredServerFields) THEN <<>>
  ELSE (IF RequiredServerFields[k] \in server.fields THEN <<>>
        ELSE <<Err("MissingServerField", "", 0, RequiredServerFields[k])>>)
         \o ServerFieldErrors(server, k + 1)

ServerErrors(doc) ==
  IF doc.server.p = "absent" THEN <<>>
  ELSE IF doc.server.p # "map" THEN <<Err("ServerNotMapping", "", 0, "server")>>
  ELSE ServerFieldErrors(doc.server, 1)

\* 3.3 with the position counted from 0
RECURSIVE StepErrorsZeroBased(_, _, _)
StepErrorsZeroBased(env, items, i) ==
  IF i > Len(items) THEN <<>>
  ELSE (CASE items[i] = "str" -> <<>>
          [] items[i] = "action" -> <<>>
          [] items[i] = "dict" -> <<Err("StepWithoutAction", env, i - 1, "steps")>>
          [] OTHER -> <<Err("StepInvalid", env, i - 1, "steps")>>)
         \o StepErrorsZeroBased(env, items, i + 1)

\* 3.3: the items of a steps list, i counting from 1 as the message does
RECURSIVE StepErrors(_, _, _)
StepErrors(env, items, i) ==
  IF i > Len(items) THEN <<>>
  ELSE (CASE items[i] = "str" -> <<>>
          [] items[i] = "action" -> <<>>
          [] items[i] = "dict" -> <<Err("StepWithoutAction", env, i, "steps")>>
          [] OTHER -> <<Err("StepInvalid", env, i, "steps")>>) \o StepErrors(env, items, i + 1)

\* 3.1-3.3 for one environment
EnvErrors(item) ==
  IF item.conf.p # "map" THEN <<Err("EnvNotMapping", item.name, 0, "")>>
  ELSE (IF item.conf.deploy_path THEN <<>>
        ELSE <<Err("MissingEnvField", item.name, 0, "deploy_path")>>)
    \o (CASE item.conf.steps.p = "absent" -> <<Err("MissingEnvField", item.name, 0, "steps")>>
          [] item.conf.steps.p = "null" -> <<>>
          [] item.conf.steps.p = "list" -> StepErrors(item.name, item.conf.steps.items, 1)
          [] OTHER -> <<Err("StepsNotList", item.name, 0, "steps")>>)

RECURSIVE EnvItemsErrors(_, _)
EnvItemsErrors(items, k) ==
  IF k > Len(items) THEN <<>>
  ELSE EnvErrors(items[k]) \o EnvItemsErrors(items, k + 1)

EnvironmentsErrors(doc) ==
  IF doc.envs.p = "absent" THEN <<>>
  ELSE IF doc.envs.p # "map" THEN <<Err("EnvironmentsNotMapping", "", 0, "environments")>>
  ELSE IF Len(doc.envs.items) = 0 THEN <<Err("EnvironmentsEmpty", "", 0, "environments")>>
  ELSE EnvItemsErrors(doc.envs.items, 1)

Result(errors) == [done |-> TRUE, raised |-> FALSE, valid |-> Len(errors) = 0, errors |-> errors]

\* validate_config(): (valid, errors); key in None raises TypeError for an
\* empty file
ValidateConfig(doc) ==
  CASE doc.file = "missing" -> Result(<<Err("NoFile", "", 0, "")>>)
    [] doc.file = "badyaml" -> Result(<<Err("BadYaml", "", 0, "")>>)
    [] doc.file = "empty" -> [done |-> TRUE, raised |-> TRUE, valid |-> FALSE, errors |-> <<>>]
    [] OTHER ->
         IF TopErrors(doc, 1) # <<>> THEN Result(TopErrors(doc, 1))
         ELSE Result(ServerErrors(doc) \o EnvironmentsErrors(doc))

\* a command validates the configuration file
Validate ==
  /\ cfg # NoCfg /\ ~vres.done
  /\ vres' = ValidateConfig(cfg)
  /\ UNCHANGED <<srv, git, calls, cfg, cli>>

InitConfigSpec ==
  /\ srv = NoSrv
  /\ git = NoGit
  /\ calls = <<>>
  /\ cfg \in Documents
  /\ vres = NoRes
  /\ cli = NoCli

NextConfig == Validate

SpecConfig == InitConfigSpec /\ [][NextConfig]_vars

(***************************************************************************)
(* The client deploy command (cicd deploy)                                 *)
(***************************************************************************)
\* the configuration files of the client runs: none, unparsable, empty, and
\* mappings whose server and environments sections are complete or not
FullServer == [p |-> "map", fields |-> {"host", "user", "repo_path"}]
ClientServers ==
  {FullServer, Absent, Scalar,
   [p |-> "map", fields |-> {"host", "repo_path"}],
   [p |-> "map", fields |-> {"user", "repo_path"}]}
OneEnv(steps) ==
  [p |-> "map",
   items |-> <<[name |-> EnvNames[1],
                conf |-> [p |-> "map", deploy_path |-> TRUE,
                          steps |-> [p |-> "list", items |-> steps]]]>>]
ClientEnvironments == {OneEnv(<<"str", "action">>), OneEnv(<<"str", "dict">>), Absent}
ClientDocuments ==
  {doc \in Documents :
     \/ doc.file # "ok"
     \/ doc.project /\ doc.server \in ClientServers /\ doc.envs \in ClientEnvironments}

\* a run that has not started
CliStart ==
  [pc |-> "check", log |-> <<>>, failed |-> "none", exit |-> -1,
   host |-> FALSE, user |-> FALSE]

\* run() prints the failure and returns; the command function of cli.py
\* returns too, so the process ends with status 0
CliFail(c, kind) == [c EXCEPT !.pc = "done", !.failed = kind, !.exit = 0]
CliSucceed(c) == [c EXCEPT !.pc = "done", !.exit = 0]

\* Python's truth value of the pair validate_config returns: a tuple of two
\* items is never empty
PairOf(v) == <<v.valid, v.errors>>
Truthy(t) == Len(t) # 0

\* 2.2: if not config_ops.validate_config()
ConfigRejected(v) == ~Truthy(PairOf(v))

\* get_config_value("server.<field>"): None unless server is a mapping with
\* the field
HasServerValue(doc, field) == doc.server.p = "map" /\ field \in doc.server.fields

\* 1: the dirty check; the user commits and pushes, or declines
CliCheck ==
  /\ cli.pc = "check"
  /\ IF IsDirty(git)
     THEN \E commitNow \in BOOLEAN, in \in PushInputs(git) :
            IF commitNow
            THEN LET r == Push(git, in) IN
                 /\ git' = r.git
                 /\ cli' = IF r.ok
                           THEN [cli EXCEPT !.pc = "config", !.log = Append(cli.log, "pushed")]
                           ELSE CliFail(cli, "PushFailed")
            ELSE /\ git' = git
                 /\ cli' = CliFail(cli, "DirtyRefused")
     ELSE /\ git' = git
          /\ cli' = [cli EXCEPT !.pc = "config"]
  /\ UNCHANGED <<srv, calls, cfg, vres>>

\* 2: has_config, validate_config, then the server values; an exception of
\* validate_config or of load_config ends in the handler at the bottom
CliLoadConfig ==
  /\ cli.pc = "config"
  /\ IF cfg.file = "missing"
     THEN /\ cli' = CliFail(cli, "ConfigMissing")
          /\ vres' = vres
     ELSE LET v == ValidateConfig(cfg) IN
          /\ vres' = v
          /\ cli' = IF v.raised THEN CliFail(cli, "Exception")
                    ELSE IF ConfigRejected(v) THEN CliFail(cli, "ConfigInvalid")
                    ELSE IF cfg.file = "badyaml" THEN CliFail(cli, "Exception")
                    ELSE [cli EXCEPT !.pc = "remote",
                                     !.host = HasServerValue(cfg, "host"),
                                     !.user = HasServerValue(cfg, "user")]
  /\ UNCHANGED <<srv, git, calls, cfg>>

\* 3: the remote command is built and handed to run_remote_command, which
\* raises ValueError without a host or a user and else starts ssh
CliRemote ==
  /\ cli.pc = "remote"
  /\ \E sshOk \in BOOLEAN :
       LET c == [cli EXCEPT !.log = cli.log \o <<"build", "call">>] IN
       cli' = IF ~cli.host \/ ~cli.user THEN CliFail(c, "Exception")
              ELSE LET t == [c EXCEPT !.log = Append(c.log, "ssh")] IN
                   IF sshOk THEN CliSucceed(t) ELSE CliFail(t, "RemoteFailed")
  /\ UNCHANGED <<srv, git, calls, cfg, vres>>

\* a repository on feat/login as in SpecPush, and one of the configuration
\* files
InitClientDeploy ==
  /\ srv = NoSrv
  /\ calls = <<>>
  /\ vres = NoRes
  /\ cli = CliStart
  /\ cfg \in ClientDocuments
  /\ \E c \in 0..Len(RemoteHistory), rc \in 0..Len(RemoteHistory), up \in BOOLEAN,
        wt \in Trees :
       LET head == "feat/login"
           tree == IF c = 0 THEN EmptyTree ELSE RemoteHistory[c].tree
           refs == [NoRefs EXCEPT ![head] = rc] IN
       git = Repo(head, [NoRefs EXCEPT ![head] = c], wt, tree, refs, refs,
                  IF up THEN {head} ELSE {})

NextClientDeploy == CliCheck \/ CliLoadConfig \/ CliRemote

SpecClientDeploy == InitClientDeploy /\ [][NextClientDeploy]_vars

(***************************************************************************)
(* The init command (cicd init)                                            *)
(***************************************************************************)
\* a directory that is not a repository: its files, and the branches of the
\* server a remote would point to
Directory(wt, remote) == [repo |-> FALSE, wt |-> wt, remote |-> remote]

\* git init: a repository on an unborn branch, without remote
GitInit(dir) ==
  [Repo("master", NoRefs, dir.wt, EmptyTree, dir.remote, NoRefs, {}) EXCEPT
     !.hasRemote = FALSE]

\* git remote add origin <url>
GitRemoteAdd(g) == [g EXCEPT !.hasRemote = TRUE]

\* the file create_default_config writes: the template validates
DefaultDocument ==
  [file |-> "ok", project |-> TRUE, server |-> FullServer,
   envs |-> [p |-> "map",
             items |-> <<[name |-> EnvNames[1],
                          conf |-> [p |-> "map", deploy_path |-> TRUE,
                                    steps |-> [p |-> "list", items |-> <<"str", "action">>]]],
                         [name |-> EnvNames[2],
                          conf |-> [p |-> "map", deploy_path |-> TRUE,
                                    steps |-> [p |-> "list", items |-> <<"str">>]]]>>]]

\* a run of init that has not started
InitCmdStart == [pc |-> "repo", log |-> <<>>, failed |-> "none", exit |-> -1]

\* run() prints and returns: exit status 0; an exception that leaves run()
\* ends the process with status 1
InitReturn(c, kind) == [c EXCEPT !.pc = "done", !.failed = kind, !.exit = 0]
InitCrash(c, kind) == [c EXCEPT !.pc = "done", !.failed = kind, !.exit = 1]

\* 1: the directory must be a repository; the user may have it initialised
InitRepoCheck ==
  /\ cli.pc = "repo"
  /\ IF git.repo
     THEN /\ git' = git
          /\ cli' = [cli EXCEPT !.pc = "remote"]
     ELSE \E yes \in BOOLEAN, ok \in BOOLEAN :
            IF yes /\ ok
            THEN /\ git' = GitInit(git)
                 /\ cli' = [cli EXCEPT !.pc = "remote", !.log = Append(cli.log, "init")]
            ELSE /\ git' = git
                 /\ cli' = InitReturn(cli, IF yes THEN "InitFailed" ELSE "NotARepository")
  /\ UNCHANGED <<srv, calls, cfg, vres>>

\* 2: a remote must be configured; the user may add one (an empty URL, a
\* failing git remote add and a refusal all end the run)
InitRemoteCheck ==
  /\ cli.pc = "remote"
  /\ IF git.hasRemote
     THEN /\ git' = git
          /\ cli' = [cli EXCEPT !.pc = "history"]
     ELSE \E yes \in BOOLEAN, url \in BOOLEAN, ok \in BOOLEAN :
            IF yes /\ url /\ ok
            THEN /\ git' = GitRemoteAdd(git)
                 /\ cli' = [cli EXCEPT !.pc = "history", !.log = Append(cli.log, "remote add")]
            ELSE /\ git' = git
                 /\ cli' = InitReturn(cli, IF ~yes THEN "NoRemote"
                                           ELSE IF ~url THEN "EmptyUrl" ELSE "RemoteAddFailed")
  /\ UNCHANGED <<srv, calls, cfg, vres>>

\* 3 without the test of get_head_hash
InitHistoryNoHeadCheck ==
  /\ cli.pc = "history"
  /\ IF IsDirty(git)
     THEN \E yes \in BOOLEAN, fail \in AlignFailures :
            IF yes
            THEN LET r == AlignWithRemote(git, fail) IN
                 /\ git' = r.git
                 /\ calls' = Append(calls, Call("align", <<>>, fail, git, r))
                 /\ cli' = IF r.ok
                           THEN [cli EXCEPT !.pc = "config", !.log = Append(cli.log, "align")]
                           ELSE InitReturn([cli EXCEPT !.log = Append(cli.log, "align")],
                                           "AlignFailed")
            ELSE /\ UNCHANGED <<git, calls>>
                 /\ cli' = [cli EXCEPT !.pc = "config"]
     ELSE /\ UNCHANGED <<git, calls>>
          /\ cli' = [cli EXCEPT !.pc = "config"]
  /\ UNCHANGED <<srv, cfg, vres>>

\* 3: without a commit on HEAD and with a dirty working tree the user is
\* offered the alignment; a refusal goes on to the configuration
InitHistory ==
  /\ cli.pc = "history"
  /\ IF ~HasHead(git) /\ IsDirty(git)
     THEN \E yes \in BOOLEAN, fail \in AlignFailures :
            IF yes
            THEN LET r == AlignWithRemote(git, fail) IN
                 /\ git' = r.git
                 /\ calls' = Append(calls, Call("align", <<>>, fail, git, r))
                 /\ cli' = IF r.ok
                           THEN [cli EXCEPT !.pc = "config", !.log = Append(cli.log, "align")]
                           ELSE InitReturn([cli EXCEPT !.log = Append(cli.log, "align")],
                                           "AlignFailed")
            ELSE /\ UNCHANGED <<git, calls>>
                 /\ cli' = [cli EXCEPT !.pc = "config"]
     ELSE /\ UNCHANGED <<git, calls>>
          /\ cli' = [cli EXCEPT !.pc = "config"]
  /\ UNCHANGED <<srv, cfg, vres>>

\* the configuration check: a missing file may be created from the template,
\* an existing one is validated; validate_config raising leaves run()
InitConfig ==
  /\ cli.pc = "config"
  /\ IF cfg.file = "missing"
     THEN \E create \in BOOLEAN, ok \in BOOLEAN :
            /\ vres' = vres
            /\ cfg' = IF create /\ ok THEN DefaultDocument ELSE cfg
            /\ cli' = InitReturn(cli, IF ~create THEN "Cancelled"
                                      ELSE IF ok THEN "ConfigCreated" ELSE "CreateFailed")
     ELSE LET v == ValidateConfig(cfg) IN
          /\ vres' = v
          /\ cfg' = cfg
          /\ cli' = IF v.raised THEN InitCrash(cli, "Exception")
                    ELSE IF ~v.valid THEN InitReturn(cli, "ConfigInvalid")
                    ELSE InitReturn(cli, "none")
  /\ UNCHANGED <<srv, git, calls>>

\* the remotes of the init runs: no branch, main, master, or maintenance only
InitRemotes ==
  {r \in RemoteRefs :
     \/ r = NoRefs
     \/ r = [NoRefs EXCEPT !["main"] = Len(RemoteHistory)]
     \/ r = [NoRefs EXCEPT !["master"] = Len(RemoteHistory)]
     \/ r = [NoRefs EXCEPT !["maintenance"] = 1]}

\* the configuration files of the init runs
InitDocuments ==
  {doc \in ClientDocuments :
     \/ doc.file \in {"missing", "empty"}
     \/ doc.file = "ok" /\ doc.envs = OneEnv(<<"str", "action">>)
          /\ doc.server \in {FullServer, [p |-> "map", fields |-> {"host", "repo_path"}]}}

\* a directory with files, or a repository on master, with or without a
\* remote, whose branch master is unborn or has commits, whose branch main
\* may exist, and whose files may be staged
InitInitSpec ==
  /\ srv = NoSrv
  /\ calls = <<>>
  /\ vres = NoRes
  /\ cli = InitCmdStart
  /\ cfg \in InitDocuments
  /\ \E wt \in Trees, remote \in InitRemotes :
       \/ git = Directory(wt, remote)
       \/ \E c \in 0..Len(RemoteHistory), m \in {0, 1}, staged \in BOOLEAN,
             hasRemote \in BOOLEAN :
            LET heads == [NoRefs EXCEPT !["master"] = c, !["main"] = m]
                tree == IF c = 0 THEN EmptyTree ELSE RemoteHistory[c].tree IN
            git = [Repo("master", heads, wt, IF staged THEN wt ELSE tree, remote,
                        NoRefs, {}) EXCEPT !.hasRemote = hasRemote]

NextInit == InitRepoCheck \/ InitRemoteCheck \/ InitHistory \/ InitConfig

SpecInit == InitInitSpec /\ [][NextInit]_vars

(***************************************************************************)
(* The preparedev command (cicd preparedev)                                *)
(***************************************************************************)
\* git pull origin <branch> on a clean tree: the remote's branch is fetched
\* (its remote-tracking ref follows) and merged into the current branch: a
\* no-op when the branch already holds the commit, a fast-forward when the
\* commit descends from HEAD.  The repositories of SpecPrepareDev hold the
\* commits of one line of history only, so two commits never diverge; that
\* case is left as a failed merge.
GitPull(g, b, net) ==
  IF ~net \/ g.remote[b] = 0 THEN Raised(g, "GitOperationFailed")
  ELSE LET rc == g.remote[b]
           g1 == [g EXCEPT !.tracking[b] = rc] IN
       IF IsAncestor(g1, rc, HeadCommit(g1)) THEN GitOk(g1)
       ELSE IF HasHead(g1) /\ IsAncestor(g1, HeadCommit(g1), rc)
                 /\ CanSwitch(g1, HeadTree(g1), TreeOf(g1, rc))
       THEN GitOk([Switched(g1, HeadTree(g1), TreeOf(g1, rc)) EXCEPT !.heads[g1.head] = rc])
       ELSE Raised(g1, "GitOperationFailed")

\* git fetch origin, which needs the network
GitFetchOrigin(g, net) ==
  IF net THEN GitOk(GitFetch(g)) ELSE Raised(g, "GitOperationFailed")

\* a run of preparedev --base <base> that has not started; pre is the
\* repository it starts in, name the branch the user will ask for
PrepStart(g, base) ==
  [pc |-> "check", log |-> <<>>, failed |-> "none", exit |-> -1, base |-> base,
   name |-> "feat/login", pre |-> g]

\* every way out of run() is a return: exit status 0
PrepReturn(c, kind) == [c EXCEPT !.pc = "done", !.failed = kind, !.exit = 0]

\* 1 without the dirty check
PrepCheckNoDirtyTest ==
  /\ cli.pc = "check"
  /\ cli' = [cli EXCEPT !.pc = "sync"]
  /\ UNCHANGED <<srv, git, calls, cfg, vres>>

\* 1: a dirty working tree ends the run
PrepCheck ==
  /\ cli.pc = "check"
  /\ cli' = IF IsDirty(git) THEN PrepReturn(cli, "DirtyRefused")
            ELSE [cli EXCEPT !.pc = "sync"]
  /\ UNCHANGED <<srv, git, calls, cfg, vres>>

\* 2: checkout <base>, pull origin <base>, fetch origin; the first command
\* that fails ends the run
PrepSync ==
  /\ cli.pc = "sync"
  /\ \E net1 \in BOOLEAN, net2 \in BOOLEAN :
       LET r1 == GitCheckout(git, cli.base)
           r2 == GitPull(r1.git, cli.base, net1)
           r3 == GitFetchOrigin(r2.git, net2) IN
       IF ~r1.ok
       THEN /\ git' = r1.git
            /\ cli' = PrepReturn([cli EXCEPT !.log = <<"checkout">>], "SyncFailed")
       ELSE IF ~r2.ok
       THEN /\ git' = r2.git
            /\ cli' = PrepReturn([cli EXCEPT !.log = <<"checkout", "pull">>], "SyncFailed")
       ELSE /\ git' = r3.git
            /\ cli' = IF r3.ok
                      THEN [cli EXCEPT !.pc = "branch", !.log = <<"checkout", "pull", "fetch">>]
                      ELSE PrepReturn([cli EXCEPT !.log = <<"checkout", "pull", "fetch">>],
                                      "SyncFailed")
  /\ UNCHANGED <<srv, calls, cfg, vres>>

\* 3-6: the user picks type and name (or interrupts), then the branch is
\* created from the base and checked out
PrepBranch ==
  /\ cli.pc = "branch"
  /\ \E answered \in BOOLEAN :
       IF ~answered
       THEN /\ cli' = PrepReturn(cli, "Cancelled")
            /\ UNCHANGED <<git, calls>>
       ELSE LET r == CreateAndCheckoutBranch(git, cli.name, cli.base) IN
            /\ git' = r.git
            /\ calls' = Append(calls, Call("branch", <<cli.name, cli.base>>, {}, git, r))
            /\ cli' = PrepReturn([cli EXCEPT !.log = Append(cli.log, "create")],
                                 IF r.ok THEN "none" ELSE "BranchFailed")
  /\ UNCHANGED <<srv, cfg, vres>>

\* a repository on main or feat/login whose branches main and feat/login may
\* exist, against a remote that may have main, fetched or not, with a clean,
\* changed or staged working tree; the base is main or master
InitPrepareDev ==
  /\ srv = NoSrv
  /\ calls = <<>>
  /\ cfg = NoCfg
  /\ vres = NoRes
  /\ \E head \in {"main", "feat/login"}, heads \in BranchRefs,
        rc \in 0..Len(RemoteHistory), fetched \in BOOLEAN,
        wt \in Trees, staged \in BOOLEAN, base \in {"main", "master"} :
       LET tree == IF heads[head] = 0 THEN EmptyTree
                   ELSE RemoteHistory[heads[head]].tree
           remote == [NoRefs EXCEPT !["main"] = rc]
           g == Repo(head, heads, wt, IF staged THEN wt ELSE tree, remote,
                     IF fetched THEN remote ELSE NoRefs, {}) IN
       /\ git = g
       /\ cli = PrepStart(g, base)

NextPrepareDev == PrepCheck \/ PrepSync \/ PrepBranch

SpecPrepareDev == InitPrepareDev /\ [][NextPrepareDev]_vars

(***************************************************************************)
(* Claims about the step executor                                          *)
(***************************************************************************)
\* the errors dispatch_step can raise for a step
PossibleErrors(step) == {DispatchStep(step, in).err : in \in DispatchInputs} \ {"none"}

\* the positions of the log at which a step was started
StartPositions == {k \in 1..Len(srv.log) : srv.log[k].ev = "start"}

\* C1: when the dispatch of step i fails, nothing is dispatched after it (the
\* failure is the last event of the run, and no event belongs to a later
\* step), the run is over with exit status 1, and the error it reports is the
\* one step i raised.
C1_StopsAtFirstFailure ==
  \A k \in 1..Len(srv.log) :
    srv.log[k].ev = "fail" =>
      /\ k = Len(srv.log)
      /\ \A j \in 1..Len(srv.log) : srv.log[j].step <= srv.log[k].step
      /\ srv.pc = "done" /\ srv.exit = 1
      /\ srv.err.step = srv.log[k].step
      /\ srv.err.kind \in PossibleErrors(srv.steps[srv.log[k].step])

\* C1 witness: the second of three steps failed after the first succeeded
C1_Witness ==
  /\ srv.pc = "done" /\ Len(srv.steps) = 3 /\ srv.err.step = 2
  /\ Ev("ok", 1) \in {srv.log[k] : k \in 1..Len(srv.log)}
  /\ srv.log[Len(srv.log)] = Ev("fail", 2)

\* C2: the steps are started in the order of the list, each at most once and
\* none skipped: the started steps are 1, 2, ..., m; step k+1 is started right
\* after step k completed successfully; a run that ends in success has
\* started every step.
C2_DispatchInListOrder ==
  /\ {srv.log[k].step : k \in StartPositions} = 1..Cardinality(StartPositions)
  /\ \A k \in StartPositions :
       /\ \A j \in StartPositions : j < k => srv.log[j].step < srv.log[k].step
       /\ srv.log[k].step > 1 => k > 1 /\ srv.log[k - 1] = Ev("ok", srv.log[k].step - 1)
  /\ (srv.pc = "done" /\ srv.exit = 0) => Cardinality(StartPositions) = Len(srv.steps)

\* C2 witness: a run of three steps that succeeded
C2_Witness ==
  /\ srv.pc = "done" /\ srv.exit = 0 /\ Len(srv.steps) = 3
  /\ Cardinality(StartPositions) = 3

\* C3 (as claimed): a shell step whose template has a placeholder that is not
\* a key of the context fails with the unknown-variable error, and no shell
\* process is spawned for it.
C3_UnknownVariableError ==
  \A k \in StartPositions :
    LET i == srv.log[k].step IN
    (srv.steps[i].kind = "shell" /\ ~(Placeholders(srv.steps[i].tmpl) \subseteq ContextKeys)) =>
      /\ srv.log[k + 1] = Ev("fail", i)
      /\ srv.err.step = i /\ srv.err.kind = "UnknownVariable"

(***************************************************************************)
(* Claims about align_with_remote                                          *)
(***************************************************************************)
AlignCalls == {k \in 1..Len(calls) : calls[k].op = "align"}

\* files present in the working tree
FilesPresent(g) == {f \in Files : g.wt[f] # 0}
\* files with a staged change, files with an unstaged change or untracked
Staged(g) == {f \in Files : g.idx[f] # HeadTree(g)[f]}
Unstaged(g) == {f \in Files : g.wt[f] # g.idx[f]}
\* files of the working tree whose content no commit of the branch holds
Uncommitted(g) == {f \in FilesPresent(g) : g.wt[f] # HeadTree(g)[f]}

\* the call started without commits and with files, and its fetch failed
\* while every other git command worked
FetchFailedCall(c) ==
  /\ c.op = "align" /\ c.fail = {"fetch"}
  /\ ~HasHead(c.pre) /\ FilesPresent(c.pre) # {}

\* C4 (as claimed): after a failed fetch the repository is as before the
\* call: the same files staged, the same files unstaged or untracked, and no
\* commit.
C4_FetchFailureRestoresState ==
  \A k \in AlignCalls :
    FetchFailedCall(calls[k]) =>
      /\ Staged(calls[k].post) = Staged(calls[k].pre)
      /\ Unstaged(calls[k].post) = Unstaged(calls[k].pre)
      /\ ~HasHead(calls[k].post)

\* C4 (amended): after a failed fetch the call raises the connectivity error,
\* no commit is on the branch, no ref has changed and the working tree is
\* untouched, but the index is the one git add . left: every present file is
\* staged.  A second failed attempt ends in the same state as the first.
C4_FetchFailureUndoesCommit ==
  /\ \A k \in AlignCalls :
       FetchFailedCall(calls[k]) =>
         /\ ~calls[k].ok /\ calls[k].outcome = "ConnectivityFailure"
         /\ ~HasHead(calls[k].post)
         /\ calls[k].post.heads = calls[k].pre.heads
         /\ calls[k].post.tracking = calls[k].pre.tracking
         /\ calls[k].post.wt = calls[k].pre.wt
         /\ calls[k].post.idx = calls[k].pre.wt
         /\ Staged(calls[k].post) = FilesPresent(calls[k].pre)
         /\ Unstaged(calls[k].post) = {}
  /\ \A k \in AlignCalls :
       (k > 1 /\ FetchFailedCall(calls[k]) /\ FetchFailedCall(calls[k - 1])) =>
         /\ calls[k].pre = calls[k - 1].post
         /\ [calls[k].post EXCEPT !.commits = <<>>] = [calls[k].pre EXCEPT !.commits = <<>>]

\* C4 witness: two failed attempts in a row, the first on a tree with an
\* untracked file
C4_Witness ==
  /\ Len(calls) = 2
  /\ FetchFailedCall(calls[1]) /\ FetchFailedCall(calls[2])
  /\ Unstaged(calls[1].pre) # {}

\* C5: on a tree without commits and with files, against a remote without
\* branches and with every git command working, the call returns the
\* remote-empty outcome, the working tree is untouched, the same files are
\* uncommitted as before, and the branch has no commit.
C5_EmptyRemoteKeepsFiles ==
  \A k \in AlignCalls :
    LET c == calls[k] IN
    (c.fail = {} /\ ~HasHead(c.pre) /\ FilesPresent(c.pre) # {} /\ c.pre.remote = NoRefs) =>
      /\ c.ok /\ c.outcome = "RemoteEmptyKept"
      /\ c.post.wt = c.pre.wt
      /\ Uncommitted(c.post) = Uncommitted(c.pre)
      /\ Uncommitted(c.post) = FilesPresent(c.pre)
      /\ ~HasHead(c.post)
      /\ LocalBranches(c.post) = {}

\* C5 witness: such a call on a tree with a staged and an untracked file
C5_Witness ==
  \E k \in AlignCalls :
    /\ calls[k].fail = {} /\ calls[k].pre.remote = NoRefs
    /\ calls[k].outcome = "RemoteEmptyKept"
    /\ \E f \in Files : calls[k].pre.idx[f] # 0 /\ calls[k].pre.idx[f] = calls[k].pre.wt[f]
    /\ \E f \in Files : calls[k].pre.idx[f] = 0 /\ calls[k].pre.wt[f] # 0

\* the call succeeded against a remote that has the branch main
AlignedToMain(c) ==
  /\ c.op = "align" /\ c.ok /\ c.outcome = "AlignedToRemote"
  /\ c.pre.remote["main"] # 0

\* the temporary commit of a call that got past its commit
TempCommit(c) == Len(c.pre.commits) + 1

\* C6 (as claimed): after a successful alignment to origin/main the branch is
\* at the tip of origin/main, the temporary commit is not in its history, and
\* every file present before is present with the same content, uncommitted
\* and unstaged.
C6_AlignedFilesAllUncommitted ==
  \A k \in AlignCalls :
    LET c == calls[k] IN
    AlignedToMain(c) =>
      /\ HeadCommit(c.post) = c.pre.remote["main"]
      /\ ~IsAncestor(c.post, TempCommit(c), HeadCommit(c.post))
      /\ \A f \in FilesPresent(c.pre) :
           /\ c.post.wt[f] = c.pre.wt[f]
           /\ f \in Uncommitted(c.post)
           /\ f \notin Staged(c.post)

\* C6 (amended): after a successful alignment to origin/main the branch is at
\* the tip of origin/main, the temporary commit is not in its history, the
\* working tree is untouched and nothing is staged; a file present before is
\* an uncommitted change exactly when its content differs from the version at
\* the tip (a file identical to the tip's version is clean).
C6_AlignedKeepsWorkingTree ==
  \A k \in AlignCalls :
    LET c == calls[k] IN
    AlignedToMain(c) =>
      /\ c.target = "main"
      /\ HeadCommit(c.post) = c.pre.remote["main"]
      /\ ~IsAncestor(c.post, TempCommit(c), HeadCommit(c.post))
      /\ c.post.wt = c.pre.wt
      /\ Staged(c.post) = {}
      /\ \A f \in FilesPresent(c.pre) :
           f \in Uncommitted(c.post) <=> c.pre.wt[f] # TreeOf(c.pre, c.pre.remote["main"])[f]

\* C6 witness: an alignment in which one file equals the tip's version and
\* another does not
C6_Witness ==
  \E k \in AlignCalls :
    /\ AlignedToMain(calls[k])
    /\ \E f \in FilesPresent(calls[k].pre) : f \notin Uncommitted(calls[k].post)
    /\ \E f \in FilesPresent(calls[k].pre) : f \in Uncommitted(calls[k].post)

(***************************************************************************)
(* Claims about create_and_checkout_branch                                 *)
(***************************************************************************)
\* call k repeats call k-1: the same method with the same arguments
RepeatedBranchCall(k) ==
  /\ k > 1
  /\ calls[k].op = "branch" /\ calls[k - 1].op = "branch"
  /\ calls[k].args = calls[k - 1].args

\* C7: when a call of createAndCheckoutBranch succeeded, the repository is on
\* that branch, and the same call made again right after it succeeds too,
\* leaves the repository on that branch and leaves the set of local branches
\* as the first call left it.
C7_CreateAndCheckoutIdempotent ==
  \A k \in 1..Len(calls) :
    (calls[k].op = "branch" /\ calls[k].ok) =>
      /\ calls[k].post.head = calls[k].args[1]
      /\ (k < Len(calls) /\ RepeatedBranchCall(k + 1)) =>
           /\ calls[k + 1].ok
           /\ calls[k + 1].post.head = calls[k].args[1]
           /\ LocalBranches(calls[k + 1].post) = LocalBranches(calls[k].post)

\* C7 witness: the first call created the branch from a base, the second
\* found it
C7_Witness ==
  /\ Len(calls) = 2 /\ RepeatedBranchCall(2)
  /\ calls[1].ok /\ calls[1].args[2] # ""
  /\ calls[1].args[1] \notin LocalBranches(calls[1].pre)
  /\ calls[1].args[1] \in LocalBranches(calls[2].pre)

(***************************************************************************)
(* Claims about push                                                       *)
(***************************************************************************)
PushCalls == {k \in 1..Len(calls) : calls[k].op = "push"}

\* the push commands of a call, in order
PushRuns(c) ==
  SelectSeq(c.trace, LAMBDA r : r.cmd \in {"push", "push --set-upstream origin"})

\* C8: push stages, commits, then pushes, and pushes only after the commit
\* worked.  After a first push that failed for want of an upstream there is
\* exactly one more push, git push --set-upstream origin <current branch>,
\* and the call succeeds exactly when that push does; it then leaves the
\* branch on the remote with its upstream set.  After a first push that
\* failed for another reason there is no second push and the call fails.
C8_PushRetriesOnlyWithoutUpstream ==
  \A k \in PushCalls :
    LET c == calls[k]
        p == PushRuns(c) IN
    /\ c.trace[1].cmd = "add" /\ c.trace[2].cmd = "commit"
    /\ c.trace[2].res # "ok" => (p = <<>> /\ ~c.ok)
    /\ c.trace[2].res = "ok" =>
         /\ Len(p) >= 1 /\ p[1].cmd = "push"
         /\ p[1].res = "ok" => (Len(p) = 1 /\ c.ok)
         /\ p[1].res = "NoUpstream" =>
              /\ Len(p) = 2
              /\ p[2].cmd = "push --set-upstream origin"
              /\ p[2].branch = c.pre.head
              /\ c.ok <=> p[2].res = "ok"
              /\ c.ok => /\ c.pre.head \in c.post.upstream
                         /\ c.post.remote[c.pre.head] = HeadCommit(c.post)
         /\ p[1].res \notin {"ok", "NoUpstream"} =>
              (Len(p) = 1 /\ ~c.ok /\ c.outcome = "GitOperationFailed")

\* C8 witness: a call that succeeded through the set-upstream retry, then a
\* call whose only push failed for another reason
C8_Witness ==
  /\ Len(calls) = 2 /\ calls[1].op = "push" /\ calls[2].op = "push"
  /\ calls[1].ok /\ Len(PushRuns(calls[1])) = 2
  /\ ~calls[2].ok /\ Len(PushRuns(calls[2])) = 1

(***************************************************************************)
(* Claims about validate_config                                            *)
(***************************************************************************)
Range(q) == {q[k] : k \in 1..Len(q)}

MissingTopKeys(doc) == {k \in Range(RequiredTopKeys) : ~HasTopKey(doc, k)}

\* the violations of a step list: a mapping without action, or an item that
\* is neither string nor mapping, each with its 1-based position (a steps key
\* without content is accepted)
StepViolations(env, items) ==
  {Err("StepWithoutAction", env, i, "steps") : i \in {j \in 1..Len(items) : items[j] = "dict"}}
    \cup {Err("StepInvalid", env, i, "steps") : i \in {j \in 1..Len(items) : items[j] = "other"}}

EnvViolations(item) ==
  IF item.conf.p # "map" THEN {Err("EnvNotMapping", item.name, 0, "")}
  ELSE (IF item.conf.deploy_path THEN {} ELSE {Err("MissingEnvField", item.name, 0, "deploy_path")})
    \cup (CASE item.conf.steps.p = "absent" -> {Err("MissingEnvField", item.name, 0, "steps")}
            [] item.conf.steps.p = "scalar" -> {Err("StepsNotList", item.name, 0, "steps")}
            [] item.conf.steps.p = "list" -> StepViolations(item.name, item.conf.steps.items)
            [] OTHER -> {})

\* every missing or malformed field of a document, wherever it is
Violations(doc) ==
  {Err("MissingTopKey", "", 0, k) : k \in MissingTopKeys(doc)}
    \cup (CASE doc.server.p = "absent" -> {}
            [] doc.server.p = "map" ->
                 {Err("MissingServerField", "", 0, f) :
                    f \in Range(RequiredServerFields) \ doc.server.fields}
            [] OTHER -> {Err("ServerNotMapping", "", 0, "server")})
    \cup (CASE doc.envs.p = "absent" -> {}
            [] doc.envs.p = "map" ->
                 IF doc.envs.items = <<>> THEN {Err("EnvironmentsEmpty", "", 0, "environments")}
                 ELSE UNION {EnvViolations(it) : it \in Range(doc.envs.items)}
            [] OTHER -> {Err("EnvironmentsNotMapping", "", 0, "environments")})

\* the errors are exactly the violations in vs, one error each
ReportsExactly(vs) ==
  /\ Range(vres.errors) = vs
  /\ Len(vres.errors) = Cardinality(vs)

\* C9: for a document that is a mapping, one call reports one error for every
\* missing or malformed field, nested fields included when a top-level key is
\* missing too.
C9_ReportsEveryViolation ==
  (vres.done /\ cfg.file = "ok") => (~vres.raised /\ ReportsExactly(Violations(cfg)))

\* What validate_config does report (C9): for a document that is a mapping,
\* one call returns invalid exactly when it has errors; with the three
\* top-level keys present it reports one error for every violation under
\* server and environments, and with a top-level key missing it reports one
\* error per missing top-level key and nothing else.
C9_ReportsAllBelowCompleteTop ==
  (vres.done /\ cfg.file = "ok") =>
    /\ ~vres.raised
    /\ vres.valid <=> vres.errors = <<>>
    /\ IF MissingTopKeys(cfg) = {}
       THEN ReportsExactly(Violations(cfg))
       ELSE ReportsExactly({Err("MissingTopKey", "", 0, k) : k \in MissingTopKeys(cfg)})

\* the mapping steps without action of a document: [env, pos]
StepsWithoutAction(doc) ==
  IF doc.envs.p # "map" THEN {}
  ELSE UNION {
         IF it.conf.p = "map" /\ it.conf.steps.p = "list"
         THEN {[env |-> it.name, pos |-> i] :
                 i \in {j \in 1..Len(it.conf.steps.items) : it.conf.steps.items[j] = "dict"}}
         ELSE {} : it \in Range(doc.envs.items)}

\* the document has all top-level keys and a server mapping without user
CompleteTopWithoutUser(doc) ==
  /\ doc.file = "ok" /\ MissingTopKeys(doc) = {}
  /\ doc.server.p = "map" /\ "user" \notin doc.server.fields

\* C10: with all top-level keys present and user missing from the server
\* mapping, a step at position i of environment E that is a mapping without
\* action makes the document invalid, with an error that names E and i and,
\* in the same result, the error for the missing server.user.
C10_StepErrorNamesEnvAndPosition ==
  (vres.done /\ CompleteTopWithoutUser(cfg)) =>
    \A s \in StepsWithoutAction(cfg) :
      /\ ~vres.raised /\ ~vres.valid
      /\ Err("StepWithoutAction", s.env, s.pos, "steps") \in Range(vres.errors)
      /\ Err("MissingServerField", "", 0, "user") \in Range(vres.errors)

\* C10 witness: such a document whose second step of prod lacks action, after
\* a first step that is fine
C10_Witness ==
  /\ vres.done /\ CompleteTopWithoutUser(cfg)
  /\ [env |-> "prod", pos |-> 2] \in StepsWithoutAction(cfg)
  /\ [env |-> "prod", pos |-> 1] \notin StepsWithoutAction(cfg)
  /\ Len(vres.errors) = 2

(***************************************************************************)
(* Claims about the server deploy run, the dispatch and the nginx action   *)
(***************************************************************************)
\* the events of the run so far, and those of step i
LogEvents == Range(srv.log)
Dispatched(i) == Ev("start", i) \in LogEvents
StartedSteps == {i \in 1..Len(srv.steps) : Dispatched(i)}

\* the run ended in failure at step i with an error of this kind and name
FailedAt(i, kind, name) ==
  /\ srv.pc = "done" /\ srv.exit = 1
  /\ srv.err = [step |-> i, kind |-> kind, name |-> name]

\* step i started neither a shell process nor the action handler
NothingRan(i) ==
  /\ Ev("spawn", i) \notin LogEvents /\ Ev("handler", i) \notin LogEvents
  /\ Ev("ok", i) \notin LogEvents

\* C13: a dispatched action step whose name is not registered fails with the
\* unsupported-action error naming it, and a dispatched step that is neither
\* a string nor a mapping with the key action fails with the malformed-step
\* error; neither starts a shell process or an action handler, and no
\* command of a handler runs.
C13_UnknownActionAndMalformedFail ==
  srv.pc # "idle" =>
    \A i \in StartedSteps :
      LET st == srv.steps[i] IN
      /\ (st.kind = "action" /\ st.name # "nginx") =>
           (FailedAt(i, "UnsupportedAction", st.name) /\ NothingRan(i) /\ srv.cmds = <<>>)
      /\ st.kind \in {"dict", "other"} =>
           (FailedAt(i, "MalformedStep", "") /\ NothingRan(i) /\ srv.cmds = <<>>)

\* C13 witness: the second step names the action apache and the run ended
\* with the unsupported-action error, after a first step that ran a shell
C13_Witness ==
  /\ srv.pc = "done" /\ srv.err.kind = "UnsupportedAction" /\ srv.err.step = 2
  /\ srv.steps[2] = ActionStep("apache")
  /\ Ev("spawn", 1) \in LogEvents

\* the last dispatch of the run was the nginx action, at step i
LastWasNginx(i) ==
  /\ srv.log # <<>> /\ srv.log[Len(srv.log)].step = i
  /\ i \in StartedSteps /\ srv.steps[i] = ActionStep("nginx")

\* C14: when the nginx action finds no ./nginx directory, or no *.conf file
\* in it, it returns without error and runs no external command.
C14_NginxWithoutConfIsNoOp ==
  srv.pc # "idle" =>
    \A i \in 1..Len(srv.steps) :
      (LastWasNginx(i) /\ (~srv.seen.hasDir \/ srv.seen.nConf = 0)) =>
        /\ Ev("ok", i) \in LogEvents /\ Ev("fail", i) \notin LogEvents
        /\ srv.cmds = <<>>
        /\ srv.err = NoErr

\* C14 witness: the nginx action ran as the only step where ./nginx exists
\* without any *.conf file, and the run ended
C14_Witness ==
  /\ srv.pc = "done" /\ Len(srv.steps) = 1 /\ LastWasNginx(1)
  /\ srv.seen = [hasDir |-> TRUE, nConf |-> 0]

SyncNames == {"fetch", "checkout", "pull"}
SyncLog == SelectSeq(srv.log, LAMBDA e : e.ev \in SyncNames)

\* C16: a step is dispatched only after fetch, checkout and pull ran in that
\* order and none of them failed; when one of them fails the run ends in
\* failure without having dispatched a step.
C16_StepsOnlyAfterSync ==
  srv.pc # "idle" =>
    /\ StartedSteps # {} =>
         /\ Len(srv.log) >= 3
         /\ SubSeq(srv.log, 1, 3) = <<Ev("fetch", 0), Ev("checkout", 0), Ev("pull", 0)>>
         /\ Len(SyncLog) = 3
         /\ srv.err.kind # "SyncFailed"
    /\ srv.err.kind = "SyncFailed" =>
         (srv.pc = "done" /\ srv.exit = 1 /\ StartedSteps = {})
    /\ srv.pc \in {"config", "steps"} => Len(SyncLog) = 3

\* C16 witness: the first step was dispatched, after the three git commands
C16_Witness ==
  /\ srv.pc # "idle" /\ Dispatched(1)
  /\ Len(SyncLog) = 3

\* positions of a command in the commands of the last action
PosOf(c, f) == {k \in 1..Len(srv.cmds) : srv.cmds[k] = Cmd(c, f)}
Before(a, b) == \A j \in a, k \in b : j < k

\* C17: in the nginx action the validation runs only after every file was
\* copied and then linked, and the reload only right after the validation;
\* when a command fails the action fails, the run ends, the failed command
\* is the last one run, and the files copied and linked before it are in
\* place.
C17_NginxOrderAndNoRollback ==
  srv.pc # "idle" =>
    \A i \in 1..Len(srv.steps) :
      (LastWasNginx(i) /\ srv.cmds # <<>>) =>
        LET n == srv.seen.nConf
            failed == Ev("fail", i) \in LogEvents
            last == Len(srv.cmds)
            done == IF failed THEN 1..(last - 1) ELSE 1..last IN
        /\ \A j, k \in 1..last : j # k => srv.cmds[j] # srv.cmds[k]
        /\ PosOf("nginx -t", 0) # {} =>
             \A f \in 1..n :
               /\ PosOf("cp", f) # {} /\ PosOf("ln", f) # {}
               /\ Before(PosOf("cp", f), PosOf("ln", f))
               /\ Before(PosOf("ln", f), PosOf("nginx -t", 0))
        /\ \A k \in PosOf("nginx -s reload", 0) :
             k = last /\ k > 1 /\ srv.cmds[k - 1] = Cmd("nginx -t", 0)
        /\ failed => FailedAt(i, "ActionFailed", "")
        /\ ~failed => srv.cmds[last] = Cmd("nginx -s reload", 0)
        /\ \A k \in done :
             /\ srv.cmds[k].c = "cp" => srv.cmds[k].f \in srv.sites.available
             /\ srv.cmds[k].c = "ln" => srv.cmds[k].f \in srv.sites.enabled

\* C17 witness: with two configuration files the validation failed, and both
\* files are copied and linked
C17_Witness ==
  /\ srv.pc = "done" /\ srv.err.kind = "ActionFailed"
  /\ srv.seen = [hasDir |-> TRUE, nConf |-> 2]
  /\ srv.cmds[Len(srv.cmds)] = Cmd("nginx -t", 0)
  /\ srv.sites = [available |-> {1, 2}, enabled |-> {1, 2}]

\* the errors a run can end with before it reaches the steps
EarlyErrors ==
  {"PathError", "NotARepository", "SyncFailed", "ConfigMissing",
   "ConfigUnreadable", "UnknownEnvironment"}

\* C18: with an empty step list the run dispatches nothing, starts no shell
\* process and no action handler, and once the configuration is read it
\* ends with exit status 0; only the stages before the steps can fail it.
C18_EmptyStepsSucceed ==
  (srv.pc # "idle" /\ srv.steps = <<>>) =>
    /\ srv.pc # "steps"
    /\ \A k \in 1..Len(srv.log) : srv.log[k].ev \in SyncNames
    /\ srv.cmds = <<>> /\ srv.sites = NoSites
    /\ srv.pc = "done" =>
         \/ srv.exit = 0 /\ srv.err = NoErr
         \/ srv.exit = 1 /\ srv.err.kind \in EarlyErrors

\* C18 witness: a run over an empty step list ended with exit status 0
C18_Witness ==
  /\ srv.pc = "done" /\ srv.steps = <<>> /\ srv.exit = 0
  /\ Len(SyncLog) = 3

(***************************************************************************)
(* Claims about the target selection and the temporary commit of           *)
(* align_with_remote                                                       *)
(***************************************************************************)
\* the call created its temporary commit
MadeTempCommit(c) ==
  /\ c.op = "align" /\ "commit" \notin c.fail
  /\ CanCommit(GitAddAll(c.pre))

\* C15: with every git command working, the call aligns to origin/main when
\* the remote has a branch named main, else to origin/master when it has a
\* branch named master, and else returns the remote-empty outcome, whatever
\* other branches the remote has.
C15_TargetByExactName ==
  \A k \in AlignCalls :
    LET c == calls[k] IN
    (MadeTempCommit(c) /\ c.fail = {}) =>
      IF c.pre.remote["main"] # 0
      THEN c.ok /\ c.outcome = "AlignedToRemote" /\ c.target = "main"
      ELSE IF c.pre.remote["master"] # 0
      THEN c.ok /\ c.outcome = "AlignedToRemote" /\ c.target = "master"
      ELSE c.ok /\ c.outcome = "RemoteEmptyKept"

\* C19: after a call that created the temporary commit, returned or raised,
\* the temporary commit is not the tip of the current branch.
C19_TempCommitNeverLeftAsTip ==
  \A k \in AlignCalls :
    MadeTempCommit(calls[k]) =>
      HeadCommit(calls[k].post) # TempCommit(calls[k])

(***************************************************************************)
(* Claims about the client deploy command and the exit status              *)
(***************************************************************************)
CliEvents == Range(cli.log)

\* C11: a finished client deploy run has exit status 0 exactly when none of
\* its steps failed (dirty-check refusal, failed push, missing or invalid
\* configuration, failed remote command, any other error).
C11_ExitStatusTellsFailure ==
  cli.pc = "done" => (cli.exit = 0 <=> cli.failed = "none")

\* The server side of C11: a finished server deploy run has exit status 0
\* exactly when no stage and no step failed.
C11_ServerExitStatus ==
  srv.pc = "done" => (srv.exit = 0 <=> srv.err = NoErr) /\ srv.exit \in {0, 1}

\* the head commit of the current branch is on the remote
HeadPushed(g) == HasHead(g) /\ g.remote[g.head] = HeadCommit(g)

\* C12: whenever the remote transport (ssh) has been started the working
\* tree is clean and the head commit of the current branch is on the remote;
\* after a declined commit or a failed commit-and-push the transport is
\* never invoked.
C12_TransportOnlyAfterCleanPushed ==
  cli.pc # "idle" =>
    /\ "ssh" \in CliEvents => (~IsDirty(git) /\ HeadPushed(git))
    /\ cli.failed \in {"DirtyRefused", "PushFailed"} =>
         ("build" \notin CliEvents /\ "call" \notin CliEvents /\ "ssh" \notin CliEvents)

\* C20: when validate_config has reported the configuration invalid, the
\* remote command is not built and the remote transport is not invoked.
C20_InvalidConfigStopsDeploy ==
  (cli.pc # "idle" /\ vres.done /\ ~vres.raised /\ ~vres.valid) =>
    ("build" \notin CliEvents /\ "call" \notin CliEvents /\ "ssh" \notin CliEvents)

(***************************************************************************)
(* Claims about the init command                                           *)
(***************************************************************************)
\* C21: init calls align_with_remote only in a repository with a remote, no
\* commit on HEAD and a dirty working tree; the call, whatever it deletes or
\* resets, leaves every branch ref and every commit that existed before in
\* place, so the only commit a reference deletion can drop is the temporary
\* one.
C21_AlignOnlyWithoutHistory ==
  cli.pc # "idle" =>
    \A k \in AlignCalls :
      LET c == calls[k] IN
      /\ c.pre.repo /\ c.pre.hasRemote
      /\ ~HasHead(c.pre) /\ IsDirty(c.pre)
      /\ \A n \in Names : c.pre.heads[n] # 0 => c.post.heads[n] = c.pre.heads[n]
      /\ SubSeq(c.post.commits, 1, Len(c.pre.commits)) = c.pre.commits
      /\ HeadCommit(c.post) \in {0, TempCommit(c)} \cup {c.post.tracking[n] : n \in Names}

\* C21 witness: init aligned a repository whose branch main has a commit;
\* the reference deletion dropped the temporary commit and main is in place
C21_Witness ==
  /\ cli.pc = "done"
  /\ \E k \in AlignCalls :
       /\ MadeTempCommit(calls[k])
       /\ calls[k].outcome \in {"RemoteEmptyKept", "ConnectivityFailure"}
       /\ calls[k].pre.heads["main"] # 0
       /\ calls[k].post.heads["main"] = calls[k].pre.heads["main"]
       /\ ~HasHead(calls[k].post)

(***************************************************************************)
(* Claims about the preparedev command                                     *)
(***************************************************************************)
\* C22: a preparedev run that started on a dirty working tree runs no
\* checkout, pull, fetch or branch creation, and leaves the repository as it
\* was: the same current branch, the same local branches, the same refs,
\* index and working tree.
C22_DirtyStartChangesNothing ==
  (cli.pc # "idle" /\ IsDirty(cli.pre)) =>
    /\ cli.log = <<>> /\ calls = <<>>
    /\ cli.pc \in {"check", "done"}
    /\ cli.pc = "done" => cli.failed = "DirtyRefused"
    /\ git.head = cli.pre.head
    /\ LocalBranches(git) = LocalBranches(cli.pre)
    /\ git = cli.pre

\* C22 witness: a run that ended on a dirty tree of feat/login although the
\* base main exists and a checkout of it would have been possible
C22_Witness ==
  /\ cli.pc = "done" /\ IsDirty(cli.pre)
  /\ cli.pre.head = "feat/login" /\ cli.base = "main"
  /\ GitCheckout(cli.pre, "main").ok
====
